---- MODULE Spec2Model ----
(***************************************************************************)
(* Model of the code execution service of server.js: the start-up probe    *)
(* of the container engine (initializeDocker) and the POST /api/execute    *)
(* handler, one action per segment of code between two awaits.             *)
(*                                                                         *)
(* Texts (buffers, messages) are sequences of tokens, <<>> being the       *)
(* empty string.  Calls of the engine and of the filesystem are external:  *)
(* each returns or raises, the choice is nondeterministic.                 *)
(***************************************************************************)
EXTENDS Integers, Sequences, FiniteSets, TLC

MAX_RETRIES == 5
RETRY_DELAY == 2000

\* Largest number of frames a sandboxed program writes.
MaxFrames == 2

\* Largest number of frames on the attached channel when it is followed byte
\* by byte.
MaxWireFrames == 3

\* Request slots; Spec handles one request at a time (see Receive).
JobIds == {1, 2}

Undefined == "undefined"

(***************************************************************************)
(* Language registry                                                       *)
(***************************************************************************)
Cfg(image, ext, fileName, compile, run) ==
    [image |-> image, ext |-> ext, fileName |-> fileName,
     compile |-> compile, run |-> run]

languageConfigs ==
    [l \in {"c", "cpp", "java", "python", "kotlin", "scala", "javascript",
            "go", "ruby", "rust", "csharp"} |->
       CASE l = "c"          -> Cfg("gcc:latest", "c", Undefined, "gcc -o program program.c", "./program")
         [] l = "cpp"        -> Cfg("gcc:latest", "cpp", Undefined, "g++ -o program program.cpp", "./program")
         [] l = "java"       -> Cfg("openjdk:17", "java", "Main.java", "javac Main.java", "java Main")
         [] l = "python"     -> Cfg("python:3.9", "py", Undefined, Undefined, "python program.py")
         [] l = "kotlin"     -> Cfg("kotlin:custom", "kt", Undefined, "kotlinc program.kt -include-runtime -d program.jar", "java -jar program.jar")
         [] l = "scala"      -> Cfg("scala:custom", "scala", Undefined, "scalac program.scala", "scala Main")
         [] l = "javascript" -> Cfg("node:16", "js", Undefined, Undefined, "node program.js")
         [] l = "go"         -> Cfg("golang:latest", "go", Undefined, Undefined, "go run program.go")
         [] l = "ruby"       -> Cfg("ruby:latest", "rb", Undefined, Undefined, "ruby program.rb")
         [] l = "rust"       -> Cfg("rust:latest", "rs", Undefined, "rustc -o program program.rs", "./program")
         [] l = "csharp"     -> Cfg("mcr.microsoft.com/dotnet/sdk:8.0", "cs", Undefined, Undefined, "dotnet script /app/program.cs")]

SupportedLanguages == DOMAIN languageConfigs

\* languageConfigs is an object literal: besides its own keys, a property
\* read finds the members it inherits from Object.prototype.
ObjectPrototypeKeys ==
    {"constructor", "toString", "valueOf", "hasOwnProperty", "__proto__"}

\* What an inherited member looks like when read as a language config:
\* a truthy value, none of whose config fields is defined.
InheritedMember == Cfg(Undefined, Undefined, Undefined, Undefined, Undefined)

\* languageConfigs[language], a truthy value or undefined.
HasConfig(language) ==
    language \in SupportedLanguages \cup ObjectPrototypeKeys

ConfigOf(language) ==
    IF language \in SupportedLanguages
    THEN languageConfigs[language]
    ELSE InheritedMember

\* JavaScript truthiness of a string-or-undefined request field.
Truthy(v) == v # Undefined /\ v # ""

\* TimeoutOf as it would be were csharp alone given the long deadline.
TimeoutOfCsharpOnly(language) ==
    IF language = "csharp" THEN 60000 ELSE 15000

\* const timeout = ['csharp', 'javascript'].includes(language) ? 60000 : 15000
TimeoutOf(language) ==
    IF language \in {"csharp", "javascript"} THEN 60000 ELSE 15000

(***************************************************************************)
(* Messages of the responses and of the errors raised by external calls    *)
(***************************************************************************)
MsgBodyMissing == <<"Request body is missing">>
MsgRequired    == <<"Language and code are required">>
MsgUnsupported == <<"Unsupported language">>
MsgUnavailable == <<"Docker service unavailable">>
MsgExecFailed  == <<"Execution failed">>

\* err.message of the error raised by a failed call of op.
ErrMsg(op) == <<op, "error">>

NoError == <<"no error">>

(***************************************************************************)
(* Sandboxed programs: the frames a program writes on the attached channel *)
(* before it ends, and how it ends.                                        *)
(***************************************************************************)
Frames ==
    { [stream |-> "stdout", payload |-> "a"],
      [stream |-> "stderr", payload |-> "e"] }

SeqsUpTo(S, n) == UNION { [1..k -> S] : k \in 0..n }

\* exit: the StatusCode of the program, or "hang" when it outlives the deadline.
Programs == [frames : SeqsUpTo(Frames, MaxFrames), exit : {"0", "1", "hang"}]

NoProgram == [frames |-> <<>>, exit |-> "none"]

RECURSIVE PayloadsOf(_, _)
\* The payloads of the frames of fs that belong to stream s, in order.
PayloadsOf(fs, s) ==
    IF fs = <<>> THEN <<>>
    ELSE IF Head(fs).stream = s
         THEN <<Head(fs).payload>> \o PayloadsOf(Tail(fs), s)
         ELSE PayloadsOf(Tail(fs), s)

(***************************************************************************)
(* Requests                                                                *)
(***************************************************************************)
\* "constructor" is a member inherited from Object.prototype, "cobol" is
\* no property of languageConfigs at all.
RequestLanguages == {Undefined, "", "python", "csharp", "constructor", "cobol"}
RequestCodes     == {Undefined, "", "print(1)"}
RequestInputs    == {Undefined, "5"}

NoBody == [present |-> FALSE, language |-> Undefined, code |-> Undefined, input |-> Undefined]

Body(language, code, input) ==
    [present |-> TRUE, language |-> language, code |-> code, input |-> input]

\* The request bodies: every language with every code, and an input with
\* the python requests.
Bodies ==
    {NoBody}
    \cup { Body(l, c, Undefined) : l \in RequestLanguages, c \in RequestCodes }
    \cup { Body("python", c, i) : c \in RequestCodes, i \in RequestInputs }

NoResponse == [status |-> 0, output |-> <<>>, error |-> <<>>]

\* res.status(s).json({ error: msg })
ErrorResponse(s, msg) == [status |-> s, output |-> <<>>, error |-> msg]

\* res.json({ output, error })
OkResponse(out, err) == [status |-> 200, output |-> out, error |-> err]

VARIABLES
    docker,      \* the module variable docker holds an engine handle
    initPc,      \* position of initializeDocker
    attempt,     \* its loop variable
    connected,   \* a ping has succeeded
    timer,       \* delay of the pending setTimeout of initializeDocker, 0 if none
    pc,          \* per request slot: position of the handler
    jobId,       \* the local jobId, 0 before uuidv4 is called
    cid,         \* container.id of the local container, 0 while it is null
    wire,        \* bytes of the attached channel not yet demultiplexed
    streamErr,   \* the attached stream has emitted 'error'
    req,         \* the request body
    container,   \* the local container is not null
    workspace,   \* the job's directory exists on disk
    prog,        \* the program running in the job's container
    channel,     \* frames written by the program, not yet delivered to the handler
    output,      \* the local output
    error,       \* the local error
    statusCode,  \* StatusCode of the wait result
    thrown,      \* err.message of the error caught by the handler's catch block
    resp,        \* the HTTP response sent
    callArgs,    \* Image given to createContainer, timeout given to wait
    log          \* calls issued and their outcomes, in order

connVars == <<docker, initPc, attempt, connected, timer>>
jobVars  == <<pc, jobId, cid, wire, streamErr, req, container, workspace, prog,
              channel, output, error, statusCode, thrown, resp, callArgs, log>>
vars == <<docker, initPc, attempt, connected, timer, pc, jobId, cid, wire,
          streamErr, req, container, workspace, prog, channel, output, error,
          statusCode, thrown, resp, callArgs, log>>

Call(op)     == <<op, "call">>
Returned(op) == <<op, "ok">>
Raised(op)   == <<op, "err">>
Responded    == <<"respond", "sent">>

\* Arguments of the engine calls, before any is made.
NoArgs == [image |-> Undefined, timeout |-> 0]

Outcome(op, ok) == IF ok THEN Returned(op) ELSE Raised(op)

\* A call whose failure the handler logs and otherwise ignores has settled.
Settled(op)  == <<op, "settled">>

\* No request is in hand.
NoJobInHand ==
    /\ pc = [j \in JobIds |-> "idle"]
    /\ jobId = [j \in JobIds |-> 0]
    /\ cid = [j \in JobIds |-> 0]
    /\ wire = [j \in JobIds |-> <<>>]
    /\ streamErr = [j \in JobIds |-> FALSE]
    /\ req = [j \in JobIds |-> NoBody]
    /\ container = [j \in JobIds |-> FALSE]
    /\ workspace = [j \in JobIds |-> FALSE]
    /\ prog = [j \in JobIds |-> NoProgram]
    /\ channel = [j \in JobIds |-> <<>>]
    /\ output = [j \in JobIds |-> <<>>]
    /\ error = [j \in JobIds |-> <<>>]
    /\ statusCode = [j \in JobIds |-> "none"]
    /\ thrown = [j \in JobIds |-> NoError]
    /\ resp = [j \in JobIds |-> NoResponse]
    /\ callArgs = [j \in JobIds |-> NoArgs]
    /\ log = [j \in JobIds |-> <<>>]

\* The module has been loaded up to the call of initializeDocker.
Init ==
    /\ docker = FALSE
    /\ initPc = "start"
    /\ attempt = 1
    /\ connected = FALSE
    /\ timer = 0
    /\ NoJobInHand

(***************************************************************************)
(* initializeDocker                                                        *)
(***************************************************************************)
\* AfterFailedAttempt as it would be were the loop never to give up.
AfterFailedAttemptRetrying(a) == "delay"

\* The catch block of the retry loop, entered at attempt a: gives up at
\* MAX_RETRIES, else waits RETRY_DELAY before the next attempt.
AfterFailedAttempt(a) == IF a = MAX_RETRIES THEN "done" ELSE "delay"

\* The timer armed on reaching position p of the probe.
TimerAt(p) == IF p = "delay" THEN RETRY_DELAY ELSE 0

\* The call at module load, up to its first await.  The logger is not yet
\* initialized then: if the engine client's constructor raises, the catch
\* block's logger.error raises a ReferenceError and the function ends with
\* docker never assigned.
InitializeDocker(ctorOk) ==
    /\ initPc = "start"
    /\ IF ctorOk
       THEN /\ docker' = TRUE
            /\ initPc' = "ping"
       ELSE /\ docker' = docker
            /\ initPc' = "crashed"
    /\ UNCHANGED <<attempt, connected, timer>>
    /\ UNCHANGED jobVars

\* The ping callback runs.
PingReturn(ok) ==
    /\ initPc = "ping"
    /\ IF ok
       THEN /\ connected' = TRUE
            /\ initPc' = "done"
       ELSE /\ connected' = connected
            /\ initPc' = AfterFailedAttempt(attempt)
    /\ timer' = TimerAt(initPc')
    /\ UNCHANGED <<docker, attempt>>
    /\ UNCHANGED jobVars

\* The RETRY_DELAY timer fires: next iteration of the loop.
RetryAfterDelay(ctorOk) ==
    /\ initPc = "delay"
    /\ attempt' = attempt + 1
    /\ IF ctorOk
       THEN /\ docker' = TRUE
            /\ initPc' = "ping"
       ELSE /\ docker' = docker
            /\ initPc' = AfterFailedAttempt(attempt + 1)
    /\ timer' = TimerAt(initPc')
    /\ UNCHANGED connected
    /\ UNCHANGED jobVars

\* Connection states of the specification, read off the probe.
Connected         == connected
PermanentlyFailed == initPc = "done" /\ ~connected

(***************************************************************************)
(* POST /api/execute                                                       *)
(***************************************************************************)
\* The handler moves to position p, having logged the entries es.
Goto(j, p, es) ==
    /\ pc' = [pc EXCEPT ![j] = p]
    /\ log' = [log EXCEPT ![j] = log[j] \o es]

\* EnterCatch as it would be had the catch block no container removal.
EnterCatchWithoutRemove(hasContainer) ==
    [pc |-> "catchRm", op |-> "rm"]

\* First step of the catch block: the container is removed if one was
\* created, then the working directory is deleted.
EnterCatch(hasContainer) ==
    IF hasContainer
    THEN [pc |-> "catchRemove", op |-> "remove"]
    ELSE [pc |-> "catchRm", op |-> "rm"]

\* An error with message msg is thrown inside the try block.
Throw(j, msg, hasContainer, es) ==
    /\ thrown' = [thrown EXCEPT ![j] = msg]
    /\ Goto(j, EnterCatch(hasContainer).pc,
            es \o <<Call(EnterCatch(hasContainer).op)>>)

\* Validate as it would be were the code field not checked.
ValidateLanguageOnly(body, dockerHandle) ==
    IF ~body.present
    THEN ErrorResponse(400, MsgBodyMissing)
    ELSE IF ~Truthy(body.language)
    THEN ErrorResponse(400, MsgRequired)
    ELSE IF ~HasConfig(body.language)
    THEN ErrorResponse(400, MsgUnsupported)
    ELSE IF ~dockerHandle
    THEN ErrorResponse(500, MsgUnavailable)
    ELSE NoResponse

\* The early returns of the handler: the response sent before any resource
\* is allocated, NoResponse when the request goes on.
Validate(body, dockerHandle) ==
    IF ~body.present
    THEN ErrorResponse(400, MsgBodyMissing)
    ELSE IF ~Truthy(body.language) \/ ~Truthy(body.code)
    THEN ErrorResponse(400, MsgRequired)
    ELSE IF ~HasConfig(body.language)
    THEN ErrorResponse(400, MsgUnsupported)
    ELSE IF ~dockerHandle
    THEN ErrorResponse(500, MsgUnavailable)
    ELSE NoResponse

\* The response of the normal path, from the exit code and the buffers.
ExitResponse(code, out, err) ==
    IF code # "0"
    THEN ErrorResponse(500, IF err # <<>> THEN err ELSE MsgExecFailed)
    ELSE OkResponse(out, err)

\* uuidv4(): an identifier no job in hand holds (used: those held).
Uuidv4(used) == CHOOSE u \in 1..(Cardinality(used) + 1) : u \notin used

\* WorkDirOf as it would be were the job id left out of the path.
WorkDirShared(id) == <<"temp">>

\* path.join(__dirname, 'temp', jobId)
WorkDirOf(id) == <<"temp", id>>

\* The id the engine gives a new container: one no container in hand has.
NewContainerId(used) == CHOOSE c \in 1..(Cardinality(used) + 1) : c \notin used

\* A request arrives (the server listens once the module is loaded); the
\* handler runs up to its first await, the call of fs.mkdir.
Receive(j, body) ==
    /\ initPc # "start"
    /\ pc[j] = "idle"
    /\ req' = [req EXCEPT ![j] = body]
    /\ IF Validate(body, docker) # NoResponse
       THEN /\ resp' = [resp EXCEPT ![j] = Validate(body, docker)]
            /\ jobId' = jobId
            /\ Goto(j, "done", <<Responded>>)
       ELSE /\ resp' = resp
            /\ jobId' = [jobId EXCEPT ![j] = Uuidv4({jobId[k] : k \in JobIds})]
            /\ Goto(j, "mkdir", <<Call("mkdir")>>)
    /\ UNCHANGED <<callArgs, container, workspace, prog, channel, output, error,
                   statusCode, thrown>>
    /\ UNCHANGED <<cid, wire, streamErr>>
    /\ UNCHANGED connVars

MkdirReturn(j, ok) ==
    /\ pc[j] = "mkdir"
    /\ IF ok
       THEN /\ workspace' = [workspace EXCEPT ![j] = TRUE]
            /\ thrown' = thrown
            /\ Goto(j, "writeCode", <<Returned("mkdir"), Call("writeFile")>>)
       ELSE /\ workspace' = workspace
            /\ Throw(j, ErrMsg("mkdir"), FALSE, <<Raised("mkdir")>>)
    /\ UNCHANGED <<callArgs, req, container, prog, channel, output, error, statusCode, resp>>
    /\ UNCHANGED <<jobId, cid, wire, streamErr>>
    /\ UNCHANGED connVars

WriteCodeReturn(j, ok) ==
    /\ pc[j] = "writeCode"
    /\ IF ok
       THEN /\ thrown' = thrown
            /\ IF Truthy(req[j].input)
               THEN /\ callArgs' = callArgs
                    /\ Goto(j, "writeInput", <<Returned("writeFile"), Call("writeFile")>>)
               ELSE /\ callArgs' = [callArgs EXCEPT ![j].image = ConfigOf(req[j].language).image]
                    /\ Goto(j, "create", <<Returned("writeFile"), Call("createContainer")>>)
       ELSE /\ callArgs' = callArgs
            /\ Throw(j, ErrMsg("writeFile"), FALSE, <<Raised("writeFile")>>)
    /\ UNCHANGED <<req, container, workspace, prog, channel, output, error,
                   statusCode, resp>>
    /\ UNCHANGED <<jobId, cid, wire, streamErr>>
    /\ UNCHANGED connVars

WriteInputReturn(j, ok) ==
    /\ pc[j] = "writeInput"
    /\ IF ok
       THEN /\ thrown' = thrown
            /\ callArgs' = [callArgs EXCEPT ![j].image = ConfigOf(req[j].language).image]
            /\ Goto(j, "create", <<Returned("writeFile"), Call("createContainer")>>)
       ELSE /\ callArgs' = callArgs
            /\ Throw(j, ErrMsg("writeFile"), FALSE, <<Raised("writeFile")>>)
    /\ UNCHANGED <<req, container, workspace, prog, channel, output, error,
                   statusCode, resp>>
    /\ UNCHANGED <<jobId, cid, wire, streamErr>>
    /\ UNCHANGED connVars

CreateReturn(j, ok) ==
    /\ pc[j] = "create"
    /\ IF ok
       THEN /\ container' = [container EXCEPT ![j] = TRUE]
            /\ cid' = [cid EXCEPT ![j] = NewContainerId({cid[k] : k \in JobIds})]
            /\ thrown' = thrown
            /\ Goto(j, "initLogs", <<Returned("createContainer"), Call("logs")>>)
       ELSE /\ container' = container
            /\ cid' = cid
            /\ Throw(j, ErrMsg("createContainer"), FALSE, <<Raised("createContainer")>>)
    /\ UNCHANGED <<callArgs, req, workspace, prog, channel, output, error, statusCode, resp>>
    /\ UNCHANGED <<jobId, wire, streamErr>>
    /\ UNCHANGED connVars

\* A failure to capture the initial logs is logged only.
InitLogsReturn(j, ok) ==
    /\ pc[j] = "initLogs"
    /\ ok \in BOOLEAN
    /\ Goto(j, "start", <<Settled("logs"), Call("start")>>)
    /\ UNCHANGED <<callArgs, req, container, workspace, prog, channel, output, error,
                   statusCode, thrown, resp>>
    /\ UNCHANGED <<jobId, cid, wire, streamErr>>
    /\ UNCHANGED connVars

\* StartReturn as it would be were a failed start logged and the handler to
\* go on to attach.
StartReturnGoingOn(j, ok, p) ==
    /\ pc[j] = "start"
    /\ prog' = [prog EXCEPT ![j] = p]
    /\ thrown' = thrown
    /\ Goto(j, "attach", <<Outcome("start", ok), Call("attach")>>)
    /\ UNCHANGED <<callArgs, req, container, workspace, channel, output, error,
                   statusCode, resp>>
    /\ UNCHANGED <<jobId, cid, wire, streamErr>>
    /\ UNCHANGED connVars

\* A started container runs some program p.
StartReturn(j, ok, p) ==
    /\ pc[j] = "start"
    /\ IF ok
       THEN /\ prog' = [prog EXCEPT ![j] = p]
            /\ thrown' = thrown
            /\ Goto(j, "attach", <<Returned("start"), Call("attach")>>)
       ELSE /\ prog' = prog
            /\ Throw(j, ErrMsg("start"), TRUE, <<Raised("start")>>)
    /\ UNCHANGED <<callArgs, req, container, workspace, channel, output, error,
                   statusCode, resp>>
    /\ UNCHANGED <<jobId, cid, wire, streamErr>>
    /\ UNCHANGED connVars

\* container.attach returns; the handler sets up the two writables and the
\* demultiplexer, writes the input if any, and calls container.wait.
AttachReturn(j, attachOk, demuxOk, writeOk) ==
    /\ pc[j] = "attach"
    /\ IF ~attachOk
       THEN /\ channel' = channel
            /\ callArgs' = callArgs
            /\ Throw(j, ErrMsg("attach"), TRUE, <<Raised("attach")>>)
       ELSE IF ~demuxOk
       THEN /\ channel' = channel
            /\ callArgs' = callArgs
            /\ Throw(j, ErrMsg("demuxStream"), TRUE,
                     <<Returned("attach"), Call("demuxStream"), Raised("demuxStream")>>)
       ELSE /\ channel' = [channel EXCEPT ![j] = prog[j].frames]
            /\ IF ~Truthy(req[j].input)
               THEN /\ thrown' = thrown
                    /\ callArgs' = [callArgs EXCEPT ![j].timeout = TimeoutOf(req[j].language)]
                    /\ Goto(j, "wait",
                            <<Returned("attach"), Call("demuxStream"),
                              Returned("demuxStream"), Call("wait")>>)
               ELSE IF ~writeOk
               THEN /\ callArgs' = callArgs
                    /\ Throw(j, ErrMsg("write"), TRUE,
                             <<Returned("attach"), Call("demuxStream"),
                               Returned("demuxStream"), Call("write"), Raised("write")>>)
               ELSE /\ thrown' = thrown
                    /\ callArgs' = [callArgs EXCEPT ![j].timeout = TimeoutOf(req[j].language)]
                    /\ Goto(j, "wait",
                            <<Returned("attach"), Call("demuxStream"),
                              Returned("demuxStream"), Call("write"),
                              Returned("write"), Call("wait")>>)
    /\ UNCHANGED <<req, container, workspace, prog, output, error, statusCode, resp>>
    /\ UNCHANGED <<jobId, cid, wire, streamErr>>
    /\ UNCHANGED connVars

\* Positions of the handler at which the demultiplexer is feeding the buffers.
Draining == {"wait", "inspect", "diagLogs", "remove", "rm", "catchRemove", "catchRm"}

\* A frame arrives on the attached channel: its payload is appended to the
\* buffer of its stream by the write callback of stdoutStream or stderrStream.
Deliver(j) ==
    /\ pc[j] \in Draining
    /\ channel[j] # <<>>
    /\ channel' = [channel EXCEPT ![j] = Tail(channel[j])]
    /\ IF Head(channel[j]).stream = "stdout"
       THEN /\ output' = [output EXCEPT ![j] = Append(output[j], Head(channel[j]).payload)]
            /\ error' = error
       ELSE /\ error' = [error EXCEPT ![j] = Append(error[j], Head(channel[j]).payload)]
            /\ output' = output
    /\ UNCHANGED <<pc, callArgs, req, container, workspace, prog, statusCode, thrown, resp, log>>
    /\ UNCHANGED <<jobId, cid, wire, streamErr>>
    /\ UNCHANGED connVars

\* The stream of job j is attached and its listeners are registered.
Attached(j) == \E i \in DOMAIN log[j] : log[j][i] = Returned("attach")

\* StreamError as it would be were the 'error' listener to throw into the
\* handler while it awaits container.wait.
StreamErrorAborting(j) ==
    /\ pc[j] = "wait"
    /\ ~streamErr[j]
    /\ streamErr' = [streamErr EXCEPT ![j] = TRUE]
    /\ channel' = [channel EXCEPT ![j] = <<>>]
    /\ wire' = [wire EXCEPT ![j] = <<>>]
    /\ Throw(j, ErrMsg("stream"), TRUE, <<>>)
    /\ UNCHANGED <<callArgs, req, container, workspace, prog, output, error, statusCode,
                   resp>>
    /\ UNCHANGED <<jobId, cid>>
    /\ UNCHANGED connVars

\* The attached stream emits 'error': the listener logs the error and the
\* handler goes on as it was.  The stream delivers nothing after its error.
StreamError(j) ==
    /\ pc[j] \in Draining
    /\ Attached(j)
    /\ ~streamErr[j]
    /\ streamErr' = [streamErr EXCEPT ![j] = TRUE]
    /\ channel' = [channel EXCEPT ![j] = <<>>]
    /\ wire' = [wire EXCEPT ![j] = <<>>]
    /\ UNCHANGED <<pc, callArgs, req, container, workspace, prog, output, error,
                   statusCode, thrown, resp, log>>
    /\ UNCHANGED <<jobId, cid>>
    /\ UNCHANGED connVars

\* WaitReturn as it would be were a failed wait taken for an exit with
\* StatusCode 0.
WaitReturnAsZeroExit(j, ok) ==
    /\ pc[j] = "wait"
    /\ ok => prog[j].exit # "hang"
    /\ IF ok
       THEN /\ statusCode' = [statusCode EXCEPT ![j] = prog[j].exit]
            /\ Goto(j, "remove", <<Returned("wait"), Call("remove")>>)
       ELSE /\ statusCode' = [statusCode EXCEPT ![j] = "0"]
            /\ Goto(j, "remove", <<Raised("wait"), Call("remove")>>)
    /\ UNCHANGED <<callArgs, req, container, workspace, prog, channel, output, error,
                   thrown, resp>>
    /\ UNCHANGED <<jobId, cid, wire, streamErr>>
    /\ UNCHANGED connVars

\* container.wait returns the exit status of a program that ended, or raises
\* (the deadline elapsed, or the call failed).
WaitReturn(j, ok) ==
    /\ pc[j] = "wait"
    /\ ok => prog[j].exit # "hang"
    /\ IF ok
       THEN /\ statusCode' = [statusCode EXCEPT ![j] = prog[j].exit]
            /\ Goto(j, "remove", <<Returned("wait"), Call("remove")>>)
       ELSE /\ statusCode' = statusCode
            /\ Goto(j, "inspect", <<Raised("wait"), Call("inspect")>>)
    /\ UNCHANGED <<callArgs, req, container, workspace, prog, channel, output, error,
                   thrown, resp>>
    /\ UNCHANGED <<jobId, cid, wire, streamErr>>
    /\ UNCHANGED connVars

\* InspectReturn as it would be were the diagnostic capture outside its own
\* try block: a failed inspect is thrown in place of waitErr.
InspectReturnThrowing(j, ok) ==
    /\ pc[j] = "inspect"
    /\ IF ok
       THEN /\ thrown' = thrown
            /\ Goto(j, "diagLogs", <<Returned("inspect"), Call("logs")>>)
       ELSE Throw(j, ErrMsg("inspect"), TRUE, <<Raised("inspect")>>)
    /\ UNCHANGED <<callArgs, req, container, workspace, prog, channel, output, error,
                   statusCode, resp>>
    /\ UNCHANGED <<jobId, cid, wire, streamErr>>
    /\ UNCHANGED connVars

\* Diagnostic capture after a failed wait; waitErr is rethrown in the end.
InspectReturn(j, ok) ==
    /\ pc[j] = "inspect"
    /\ IF ok
       THEN /\ thrown' = thrown
            /\ Goto(j, "diagLogs", <<Returned("inspect"), Call("logs")>>)
       ELSE Throw(j, ErrMsg("wait"), TRUE, <<Raised("inspect")>>)
    /\ UNCHANGED <<callArgs, req, container, workspace, prog, channel, output, error,
                   statusCode, resp>>
    /\ UNCHANGED <<jobId, cid, wire, streamErr>>
    /\ UNCHANGED connVars

DiagLogsReturn(j, ok) ==
    /\ pc[j] = "diagLogs"
    /\ Throw(j, ErrMsg("wait"), TRUE, <<Outcome("logs", ok)>>)
    /\ UNCHANGED <<callArgs, req, container, workspace, prog, channel, output, error,
                   statusCode, resp>>
    /\ UNCHANGED <<jobId, cid, wire, streamErr>>
    /\ UNCHANGED connVars

\* RemoveReturn as it would be were the removal not wrapped in its own try.
RemoveReturnRethrowing(j, ok) ==
    /\ pc[j] = "remove"
    /\ IF ok
       THEN /\ thrown' = thrown
            /\ Goto(j, "rm", <<Returned("remove"), Call("rm")>>)
       ELSE Throw(j, ErrMsg("remove"), TRUE, <<Raised("remove")>>)
    /\ UNCHANGED <<callArgs, req, container, workspace, prog, channel, output, error,
                   statusCode, resp>>
    /\ UNCHANGED <<jobId, cid, wire, streamErr>>
    /\ UNCHANGED connVars

\* Normal path: container.remove returns or raises, which is logged only.
RemoveReturn(j, ok) ==
    /\ pc[j] = "remove"
    /\ thrown' = thrown
    /\ Goto(j, "rm", <<Outcome("remove", ok), Call("rm")>>)
    /\ UNCHANGED <<callArgs, req, container, workspace, prog, channel, output, error,
                   statusCode, resp>>
    /\ UNCHANGED <<jobId, cid, wire, streamErr>>
    /\ UNCHANGED connVars

\* Normal path: fs.rm returns and the response is sent, or it raises inside
\* the try block.
RmReturn(j, ok) ==
    /\ pc[j] = "rm"
    /\ IF ok
       THEN /\ workspace' = [workspace EXCEPT ![j] = FALSE]
            /\ resp' = [resp EXCEPT ![j] = ExitResponse(statusCode[j], output[j], error[j])]
            /\ thrown' = thrown
            /\ Goto(j, "done", <<Returned("rm"), Responded>>)
       ELSE /\ workspace' = workspace
            /\ resp' = resp
            /\ Throw(j, ErrMsg("rm"), container[j], <<Raised("rm")>>)
    /\ UNCHANGED <<callArgs, req, container, prog, channel, output, error, statusCode>>
    /\ UNCHANGED <<jobId, cid, wire, streamErr>>
    /\ UNCHANGED connVars

\* Catch block: container.remove returns or raises, which is logged only.
CatchRemoveReturn(j, ok) ==
    /\ pc[j] = "catchRemove"
    /\ Goto(j, "catchRm", <<Outcome("remove", ok), Call("rm")>>)
    /\ UNCHANGED <<callArgs, req, container, workspace, prog, channel, output, error,
                   statusCode, thrown, resp>>
    /\ UNCHANGED <<jobId, cid, wire, streamErr>>
    /\ UNCHANGED connVars

\* Catch block: fs.rm returns and the 500 response is sent, or it raises and
\* the handler's promise is rejected.
CatchRmReturn(j, ok) ==
    /\ pc[j] = "catchRm"
    /\ IF ok
       THEN /\ workspace' = [workspace EXCEPT ![j] = FALSE]
            /\ resp' = [resp EXCEPT ![j] = ErrorResponse(500, thrown[j])]
            /\ Goto(j, "done", <<Returned("rm"), Responded>>)
       ELSE /\ workspace' = workspace
            /\ resp' = resp
            /\ Goto(j, "rejected", <<Raised("rm")>>)
    /\ UNCHANGED <<callArgs, req, container, prog, channel, output, error, statusCode, thrown>>
    /\ UNCHANGED <<jobId, cid, wire, streamErr>>
    /\ UNCHANGED connVars

\* The handler has ended: its locals are discarded and the slot is free.
Finish(j) ==
    /\ pc[j] \in {"done", "rejected"}
    /\ pc' = [pc EXCEPT ![j] = "idle"]
    /\ req' = [req EXCEPT ![j] = NoBody]
    /\ container' = [container EXCEPT ![j] = FALSE]
    /\ workspace' = [workspace EXCEPT ![j] = FALSE]
    /\ prog' = [prog EXCEPT ![j] = NoProgram]
    /\ channel' = [channel EXCEPT ![j] = <<>>]
    /\ output' = [output EXCEPT ![j] = <<>>]
    /\ error' = [error EXCEPT ![j] = <<>>]
    /\ statusCode' = [statusCode EXCEPT ![j] = "none"]
    /\ thrown' = [thrown EXCEPT ![j] = NoError]
    /\ resp' = [resp EXCEPT ![j] = NoResponse]
    /\ callArgs' = [callArgs EXCEPT ![j] = NoArgs]
    /\ log' = [log EXCEPT ![j] = <<>>]
    /\ jobId' = [jobId EXCEPT ![j] = 0]
    /\ cid' = [cid EXCEPT ![j] = 0]
    /\ wire' = [wire EXCEPT ![j] = <<>>]
    /\ streamErr' = [streamErr EXCEPT ![j] = FALSE]
    /\ UNCHANGED connVars

\* Workload of Spec: one request at a time, in the lowest slot.
OneAtATime(j) ==
    /\ \A k \in JobIds : pc[k] = "idle"
    /\ \A k \in JobIds : j <= k

\* A request arrives while no other is in hand.
ReceiveAlone(j, body) ==
    /\ OneAtATime(j)
    /\ Receive(j, body)

Next ==
    \/ \E ctorOk \in BOOLEAN : InitializeDocker(ctorOk)
    \/ \E ok \in BOOLEAN : PingReturn(ok)
    \/ \E ctorOk \in BOOLEAN : RetryAfterDelay(ctorOk)
    \/ \E j \in JobIds, body \in Bodies : ReceiveAlone(j, body)
    \/ \E j \in JobIds, ok \in BOOLEAN : MkdirReturn(j, ok)
    \/ \E j \in JobIds, ok \in BOOLEAN : WriteCodeReturn(j, ok)
    \/ \E j \in JobIds, ok \in BOOLEAN : WriteInputReturn(j, ok)
    \/ \E j \in JobIds, ok \in BOOLEAN : CreateReturn(j, ok)
    \/ \E j \in JobIds, ok \in BOOLEAN : InitLogsReturn(j, ok)
    \/ \E j \in JobIds, ok \in BOOLEAN, p \in Programs : StartReturn(j, ok, p)
    \/ \E j \in JobIds, a, d, w \in BOOLEAN : AttachReturn(j, a, d, w)
    \/ \E j \in JobIds : Deliver(j)
    \/ \E j \in JobIds, ok \in BOOLEAN : WaitReturn(j, ok)
    \/ \E j \in JobIds, ok \in BOOLEAN : InspectReturn(j, ok)
    \/ \E j \in JobIds, ok \in BOOLEAN : DiagLogsReturn(j, ok)
    \/ \E j \in JobIds, ok \in BOOLEAN : RemoveReturn(j, ok)
    \/ \E j \in JobIds, ok \in BOOLEAN : RmReturn(j, ok)
    \/ \E j \in JobIds, ok \in BOOLEAN : CatchRemoveReturn(j, ok)
    \/ \E j \in JobIds, ok \in BOOLEAN : CatchRmReturn(j, ok)
    \/ \E j \in JobIds : Finish(j)

Spec == Init /\ [][Next]_vars

\* A step of initializeDocker.
ProbeStep ==
    \/ \E ctorOk \in BOOLEAN : InitializeDocker(ctorOk)
    \/ \E ok \in BOOLEAN : PingReturn(ok)
    \/ \E ctorOk \in BOOLEAN : RetryAfterDelay(ctorOk)

\* Spec with the event loop's scheduling: the module's top level runs, every
\* ping returns or raises, and every timer fires.
FairSpec == Spec /\ WF_vars(ProbeStep)

(***************************************************************************)
(* One request at a time once the engine has answered the first ping: the *)
(* requests of Spec and one for every language of the registry, and an    *)
(* attached stream that may fail.                                          *)
(***************************************************************************)
\* The state reached from Init by InitializeDocker(TRUE) and PingReturn(TRUE).
InitConnected ==
    /\ docker = TRUE
    /\ initPc = "done"
    /\ attempt = 1
    /\ connected = TRUE
    /\ timer = 0
    /\ NoJobInHand

JobBodies ==
    Bodies \cup { Body(l, "print(1)", Undefined) : l \in SupportedLanguages }

NextJob ==
    \/ \E j \in JobIds, body \in JobBodies : ReceiveAlone(j, body)
    \/ \E j \in JobIds, ok \in BOOLEAN : MkdirReturn(j, ok)
    \/ \E j \in JobIds, ok \in BOOLEAN : WriteCodeReturn(j, ok)
    \/ \E j \in JobIds, ok \in BOOLEAN : WriteInputReturn(j, ok)
    \/ \E j \in JobIds, ok \in BOOLEAN : CreateReturn(j, ok)
    \/ \E j \in JobIds, ok \in BOOLEAN : InitLogsReturn(j, ok)
    \/ \E j \in JobIds, ok \in BOOLEAN, p \in Programs : StartReturn(j, ok, p)
    \/ \E j \in JobIds, a, d, w \in BOOLEAN : AttachReturn(j, a, d, w)
    \/ \E j \in JobIds : Deliver(j)
    \/ \E j \in JobIds : StreamError(j)
    \/ \E j \in JobIds, ok \in BOOLEAN : WaitReturn(j, ok)
    \/ \E j \in JobIds, ok \in BOOLEAN : InspectReturn(j, ok)
    \/ \E j \in JobIds, ok \in BOOLEAN : DiagLogsReturn(j, ok)
    \/ \E j \in JobIds, ok \in BOOLEAN : RemoveReturn(j, ok)
    \/ \E j \in JobIds, ok \in BOOLEAN : RmReturn(j, ok)
    \/ \E j \in JobIds, ok \in BOOLEAN : CatchRemoveReturn(j, ok)
    \/ \E j \in JobIds, ok \in BOOLEAN : CatchRmReturn(j, ok)
    \/ \E j \in JobIds : Finish(j)

SpecJob == InitConnected /\ [][NextJob]_vars

(***************************************************************************)
(* Two requests in hand at once.  The engine has answered the first ping,  *)
(* every call still returns or raises, the requests are well formed and    *)
(* the attached streams do not fail.                                       *)
(***************************************************************************)
ConcBodies == { Body("python", "print(1)", Undefined) }

\* A program that prints and exits with 0, and one that complains and exits
\* with 1.
ConcPrograms ==
    { [frames |-> <<[stream |-> "stdout", payload |-> "a"]>>, exit |-> "0"],
      [frames |-> <<[stream |-> "stderr", payload |-> "e"]>>, exit |-> "1"] }

NextConc ==
    \/ \E j \in JobIds, body \in ConcBodies : Receive(j, body)
    \/ \E j \in JobIds, ok \in BOOLEAN : MkdirReturn(j, ok)
    \/ \E j \in JobIds, ok \in BOOLEAN : WriteCodeReturn(j, ok)
    \/ \E j \in JobIds, ok \in BOOLEAN : CreateReturn(j, ok)
    \/ \E j \in JobIds, ok \in BOOLEAN : InitLogsReturn(j, ok)
    \/ \E j \in JobIds, ok \in BOOLEAN, p \in ConcPrograms : StartReturn(j, ok, p)
    \/ \E j \in JobIds, a, d, w \in BOOLEAN : AttachReturn(j, a, d, w)
    \/ \E j \in JobIds : Deliver(j)
    \/ \E j \in JobIds, ok \in BOOLEAN : WaitReturn(j, ok)
    \/ \E j \in JobIds, ok \in BOOLEAN : InspectReturn(j, ok)
    \/ \E j \in JobIds, ok \in BOOLEAN : DiagLogsReturn(j, ok)
    \/ \E j \in JobIds, ok \in BOOLEAN : RemoveReturn(j, ok)
    \/ \E j \in JobIds, ok \in BOOLEAN : RmReturn(j, ok)
    \/ \E j \in JobIds, ok \in BOOLEAN : CatchRemoveReturn(j, ok)
    \/ \E j \in JobIds, ok \in BOOLEAN : CatchRmReturn(j, ok)
    \/ \E j \in JobIds : Finish(j)

SpecConc == InitConnected /\ [][NextConc]_vars

(***************************************************************************)
(* The attached channel byte by byte.  The frame format is that of the     *)
(* engine's attach stream: 1 byte stream type, 3 reserved bytes, 4 bytes   *)
(* big-endian payload length, then the payload.                            *)
(***************************************************************************)
StreamTypeOf(s) == IF s = "stdout" THEN 1 ELSE 2

UInt32BE(n) ==
    <<(n \div 16777216) % 256, (n \div 65536) % 256, (n \div 256) % 256, n % 256>>

ReadUInt32BE(b) == b[1] * 16777216 + b[2] * 65536 + b[3] * 256 + b[4]

EncodeFrame(f) ==
    <<StreamTypeOf(f.stream), 0, 0, 0>> \o UInt32BE(Len(f.payload)) \o f.payload

RECURSIVE EncodeFrames(_)
EncodeFrames(fs) ==
    IF fs = <<>> THEN <<>> ELSE EncodeFrame(Head(fs)) \o EncodeFrames(Tail(fs))

\* The buffer of the demultiplexer holds a whole frame: header and payload.
HasFrame(buffer) ==
    /\ Len(buffer) >= 8
    /\ Len(buffer) >= 8 + ReadUInt32BE(SubSeq(buffer, 5, 8))

\* The first frame of the buffer, and the buffer after it.
HeadFrame(buffer) ==
    [stream  |-> IF buffer[1] = 1 THEN "stdout" ELSE "stderr",
     payload |-> SubSeq(buffer, 9, 8 + ReadUInt32BE(SubSeq(buffer, 5, 8)))]

AfterHeadFrame(buffer) ==
    SubSeq(buffer, 9 + ReadUInt32BE(SubSeq(buffer, 5, 8)), Len(buffer))

RECURSIVE Utf8ToString(_)
\* chunk.toString('utf8'), as code points: one- and two-byte sequences are
\* decoded, any other byte becomes U+FFFD.
Utf8ToString(bytes) ==
    IF bytes = <<>> THEN <<>>
    ELSE IF Head(bytes) < 128
         THEN <<Head(bytes)>> \o Utf8ToString(Tail(bytes))
    ELSE IF /\ Head(bytes) \in 194..223
            /\ Len(bytes) >= 2
            /\ bytes[2] \in 128..191
         THEN <<(Head(bytes) - 192) * 64 + (bytes[2] - 128)>>
                  \o Utf8ToString(SubSeq(bytes, 3, Len(bytes)))
    ELSE <<65533>> \o Utf8ToString(Tail(bytes))

\* Payloads: none, "a", and "b" followed by a two-byte character.
WirePayloads == { <<>>, <<97>>, <<98, 195, 169>> }

WireFrames == [stream : {"stdout", "stderr"}, payload : WirePayloads]

\* A program that writes the frames fs and exits, on a channel that closes
\* after cut bytes.
WireProgram(fs, cut) == [frames |-> fs, exit |-> "0", cut |-> cut]

\* DemuxData as it would be were the stderr writable to append to output.
DemuxDataIntoOutput(j) ==
    /\ pc[j] \in Draining
    /\ HasFrame(wire[j])
    /\ wire' = [wire EXCEPT ![j] = AfterHeadFrame(wire[j])]
    /\ output' = [output EXCEPT ![j] = @ \o Utf8ToString(HeadFrame(wire[j]).payload)]
    /\ error' = error
    /\ UNCHANGED <<pc, callArgs, req, container, workspace, prog, channel, statusCode,
                   thrown, resp, log>>
    /\ UNCHANGED <<jobId, cid, streamErr>>
    /\ UNCHANGED connVars

\* The demultiplexer finds a whole frame in its buffer and writes the payload
\* to stdoutStream or stderrStream, whose write callback appends the decoded
\* chunk to output or error.
DemuxData(j) ==
    /\ pc[j] \in Draining
    /\ HasFrame(wire[j])
    /\ wire' = [wire EXCEPT ![j] = AfterHeadFrame(wire[j])]
    /\ IF HeadFrame(wire[j]).stream = "stdout"
       THEN /\ output' = [output EXCEPT ![j] = @ \o Utf8ToString(HeadFrame(wire[j]).payload)]
            /\ error' = error
       ELSE /\ error' = [error EXCEPT ![j] = @ \o Utf8ToString(HeadFrame(wire[j]).payload)]
            /\ output' = output
    /\ UNCHANGED <<pc, callArgs, req, container, workspace, prog, channel, statusCode,
                   thrown, resp, log>>
    /\ UNCHANGED <<jobId, cid, streamErr>>
    /\ UNCHANGED connVars

\* The log of a job without input whose calls have all returned, up to the
\* call of container.wait.
LogAtWait ==
    <<Call("mkdir"), Returned("mkdir"), Call("writeFile"), Returned("writeFile"),
      Call("createContainer"), Returned("createContainer"), Call("logs"),
      Settled("logs"), Call("start"), Returned("start"), Call("attach"),
      Returned("attach"), Call("demuxStream"), Returned("demuxStream"),
      Call("wait")>>

\* Job 1 has attached to the container of a program that writes frames and
\* waits for it; nothing has been read from the channel yet.
InitDemux ==
    /\ docker = TRUE
    /\ initPc = "done"
    /\ attempt = 1
    /\ connected = TRUE
    /\ timer = 0
    /\ pc = [j \in JobIds |-> IF j = 1 THEN "wait" ELSE "idle"]
    /\ jobId = [j \in JobIds |-> IF j = 1 THEN 1 ELSE 0]
    /\ cid = [j \in JobIds |-> IF j = 1 THEN 1 ELSE 0]
    /\ streamErr = [j \in JobIds |-> FALSE]
    /\ req = [j \in JobIds |->
                IF j = 1 THEN Body("python", "print(1)", Undefined) ELSE NoBody]
    /\ container = [j \in JobIds |-> j = 1]
    /\ workspace = [j \in JobIds |-> j = 1]
    /\ \E fs \in SeqsUpTo(WireFrames, MaxWireFrames) :
           \E cut \in 0..Len(EncodeFrames(fs)) :
               /\ prog = [j \in JobIds |-> IF j = 1 THEN WireProgram(fs, cut) ELSE NoProgram]
               /\ wire = [j \in JobIds |->
                             IF j = 1 THEN SubSeq(EncodeFrames(fs), 1, cut) ELSE <<>>]
    /\ channel = [j \in JobIds |-> <<>>]
    /\ output = [j \in JobIds |-> <<>>]
    /\ error = [j \in JobIds |-> <<>>]
    /\ statusCode = [j \in JobIds |-> "none"]
    /\ thrown = [j \in JobIds |-> NoError]
    /\ resp = [j \in JobIds |-> NoResponse]
    /\ callArgs = [j \in JobIds |->
                     IF j = 1
                     THEN [image |-> ConfigOf("python").image,
                           timeout |-> TimeoutOf("python")]
                     ELSE NoArgs]
    /\ log = [j \in JobIds |-> IF j = 1 THEN LogAtWait ELSE <<>>]

NextDemux == \E j \in JobIds : DemuxData(j)

SpecDemux == InitDemux /\ [][NextDemux]_vars

(***************************************************************************)
(* Properties                                                              *)
(***************************************************************************)
Active(j)      == pc[j] # "idle"
Ended(j)       == pc[j] \in {"done", "rejected"}
HasResponse(j) == resp[j].status # 0

\* The entry e is in the log of job j.
Has(j, e) == \E i \in DOMAIN log[j] : log[j][i] = e

\* The call of op was issued by job j.
Issued(j, op) == Has(j, Call(op))

\* The entry e1 is in the log of job j before the entry e2.
Before(j, e1, e2) ==
    \E i, k \in DOMAIN log[j] : i < k /\ log[j][i] = e1 /\ log[j][k] = e2

\* The calls made to the engine on behalf of a job.
SandboxOps ==
    {"createContainer", "logs", "start", "attach", "demuxStream", "write",
     "wait", "inspect", "remove"}

NoSandboxOp(j) == \A op \in SandboxOps : ~Issued(j, op)

\* The request names a language of the registry and carries code.
WellFormed(body) ==
    /\ body.present
    /\ body.language \in SupportedLanguages
    /\ Truthy(body.code)

\* The request passed validation and the engine-availability check.
Admitted(j) ==
    /\ Active(j)
    /\ req[j].present
    /\ Truthy(req[j].language)
    /\ Truthy(req[j].code)
    /\ HasConfig(req[j].language)
    /\ docker

\* The calls whose failure is thrown to the catch block, the deletion of
\* the working directory apart.
PhaseOps ==
    {"mkdir", "writeFile", "createContainer", "start", "attach",
     "demuxStream", "write", "wait"}

FailedPhases(j) == { op \in PhaseOps : Has(j, Raised(op)) }

\* The result the job has determined, whatever its clean-up calls do: the
\* error of the phase that failed, else what the exit code and the buffers say.
DeterminedResult(j) ==
    IF FailedPhases(j) # {}
    THEN ErrorResponse(500, ErrMsg(CHOOSE op \in FailedPhases(j) : TRUE))
    ELSE IF statusCode[j] = "0"
    THEN [status |-> 200, output |-> output[j], error |-> error[j]]
    ELSE [status |-> 500, output |-> <<>>,
          error |-> IF error[j] = <<>> THEN MsgExecFailed ELSE error[j]]

\* C1: when the response of an admitted request is sent, the recursive
\* delete of its working directory has been issued and, if a container was
\* created, so has the forced removal of that container.
C1_CleanupIssuedBeforeResponse ==
    \A j \in JobIds :
        (Admitted(j) /\ HasResponse(j)) =>
            /\ Before(j, Call("rm"), Responded)
            /\ container[j] => Before(j, Call("remove"), Responded)

\* C1 witness: a response sent on the failure path of a job that had
\* created its container.
C1_Witness ==
    \E j \in JobIds :
        /\ Admitted(j) /\ HasResponse(j)
        /\ container[j]
        /\ Has(j, Raised("start"))

\* C2: a well-formed request received once the probe has given up is
\* answered at once with the 500 'Docker service unavailable'.
C2_RejectedAfterGivingUp ==
    [][\A j \in JobIds :
          (PermanentlyFailed /\ pc[j] = "idle" /\ pc'[j] # "idle"
             /\ WellFormed(req'[j]))
          => resp'[j] = ErrorResponse(500, MsgUnavailable)]_vars

\* C3: while no ping has succeeded, a request in hand has no working
\* directory and has issued no sandbox call.
C3_FailFastWhenNotConnected ==
    \A j \in JobIds :
        (Active(j) /\ ~Connected) =>
            /\ ~workspace[j]
            /\ NoSandboxOp(j)

\* C4: with the engine connected, the 200 response of a job whose program
\* wrote to standard output and exited 0 carries all the program wrote, and
\* the working directory is gone.
C4_CompleteOutputOnSuccess ==
    \A j \in JobIds :
        (/\ Connected
         /\ resp[j].status = 200
         /\ prog[j].exit = "0"
         /\ PayloadsOf(prog[j].frames, "stdout") # <<>>)
        => /\ resp[j].output = PayloadsOf(prog[j].frames, "stdout")
           /\ resp[j].error = PayloadsOf(prog[j].frames, "stderr")
           /\ ~workspace[j]

\* C5: with the engine connected, the response of a job whose wait returned
\* a non-zero StatusCode is the 500 carrying the captured stderr text, or
\* 'Execution failed' when that is empty, sent after the forced removal was
\* issued.
C5_NonZeroExitResponse ==
    \A j \in JobIds :
        (Connected /\ HasResponse(j) /\ statusCode[j] \notin {"none", "0"}) =>
            /\ resp[j].status = 500
            /\ resp[j].error = IF error[j] = <<>> THEN MsgExecFailed ELSE error[j]
            /\ Before(j, Call("remove"), Responded)

C7_RmFailureKeepsResult ==
    \A j \in JobIds :
        (Connected /\ Ended(j) /\ Has(j, Raised("rm"))) =>
            /\ HasResponse(j)
            /\ resp[j] = DeterminedResult(j)

\* The error first thrown in the try block of job j, if any: that of the
\* phase that failed, else that of the delete of the working directory.
\* The forced removal is no part of it.
OriginalErrors(j) ==
    IF FailedPhases(j) # {}
    THEN { ErrMsg(op) : op \in FailedPhases(j) }
    ELSE IF Has(j, Raised("rm")) THEN {ErrMsg("rm")} ELSE {}

\* C8: whether the forced removal returned or raised, the response of an
\* admitted job carries the error first thrown in its try block, and when
\* none was thrown it is what the exit code and the buffers say.
C8_RemoveFailureKeepsResult ==
    \A j \in JobIds :
        (Admitted(j) /\ HasResponse(j)) =>
            IF OriginalErrors(j) # {}
            THEN /\ resp[j].status = 500
                 /\ resp[j].error \in OriginalErrors(j)
            ELSE resp[j] = DeterminedResult(j)

\* C8 witness: a 200 response of a job whose forced removal raised.
C8_Witness ==
    \E j \in JobIds :
        /\ Has(j, Raised("remove"))
        /\ resp[j].status = 200
        /\ resp[j].output # <<>>

\* C9: a request without body, without language or without code ends at
\* once with the 400 validation error, with no working directory and no
\* call issued, whatever the state of the connection.
C9_MissingFieldRejected ==
    \A j \in JobIds :
        (Active(j) /\ (~req[j].present \/ ~Truthy(req[j].language)
                         \/ ~Truthy(req[j].code))) =>
            /\ pc[j] = "done"
            /\ resp[j] = ErrorResponse(400, IF req[j].present THEN MsgRequired
                                                              ELSE MsgBodyMissing)
            /\ ~workspace[j]
            /\ log[j] = <<Responded>>

\* C9 witness: a request for a supported language with empty code, answered
\* while the engine is connected.
C9_Witness ==
    \E j \in JobIds :
        /\ req[j].present
        /\ req[j].language = "python"
        /\ req[j].code = ""
        /\ resp[j].status = 400
        /\ Connected

\* C10: with the engine connected, a request with code whose language is a
\* non-empty string outside the registry has no working directory, has
\* issued no sandbox call, and its response is the 400 'Unsupported language'.
C10_UnsupportedLanguageRejected ==
    \A j \in JobIds :
        (/\ Connected
         /\ Active(j)
         /\ req[j].present
         /\ Truthy(req[j].code)
         /\ Truthy(req[j].language)
         /\ req[j].language \notin SupportedLanguages)
        => /\ HasResponse(j) => resp[j] = ErrorResponse(400, MsgUnsupported)
           /\ ~workspace[j]
           /\ NoSandboxOp(j)


\* s is an initial part of t.
IsPrefix(s, t) == Len(s) <= Len(t) /\ SubSeq(t, 1, Len(s)) = s

\* The jobs that hold a job id: those past validation and not yet ended.
InHand == { j \in JobIds : jobId[j] # 0 }

\* Everything in the buffers and in the response of job j was written by the
\* program of the container of job j.
OwnOutputOnly(j) ==
    /\ IsPrefix(output[j] \o PayloadsOf(channel[j], "stdout"),
                PayloadsOf(prog[j].frames, "stdout"))
    /\ IsPrefix(error[j] \o PayloadsOf(channel[j], "stderr"),
                PayloadsOf(prog[j].frames, "stderr"))
    /\ resp[j].status = 200 =>
           /\ IsPrefix(resp[j].output, PayloadsOf(prog[j].frames, "stdout"))
           /\ IsPrefix(resp[j].error, PayloadsOf(prog[j].frames, "stderr"))
    /\ resp[j].status = 500 =>
           \/ resp[j].error \in {MsgExecFailed} \cup {ErrMsg(op) : op \in PhaseOps \cup {"rm"}}
           \/ IsPrefix(resp[j].error, PayloadsOf(prog[j].frames, "stderr"))

\* C11: of two jobs in hand at once, each has a workspace directory and a
\* container of its own, no other job's, and the buffers and the response of
\* each hold only what its own container wrote.
C11_JobsIsolated ==
    /\ \A j, k \in InHand :
           j # k =>
               /\ WorkDirOf(jobId[j]) # WorkDirOf(jobId[k])
               /\ (cid[j] # 0 /\ cid[k] # 0) => cid[j] # cid[k]
    /\ \A j \in JobIds : OwnOutputOnly(j)

\* Two jobs in hand have both been answered, one with the output of its
\* program and the other with the complaint of its own.
C11_Witness ==
    /\ InHand = {1, 2}
    /\ cid[1] # 0 /\ cid[2] # 0
    /\ resp[1] = OkResponse(<<"a">>, <<>>)
    /\ resp[2] = ErrorResponse(500, <<"e">>)


RECURSIVE FramesWithin(_, _)
\* The frames of fs that lie whole within the first n bytes of the channel.
FramesWithin(fs, n) ==
    IF fs = <<>> \/ 8 + Len(Head(fs).payload) > n THEN <<>>
    ELSE <<Head(fs)>> \o FramesWithin(Tail(fs), n - 8 - Len(Head(fs).payload))

RECURSIVE TextOf(_, _)
\* The text of the payloads of the frames of fs that belong to stream s,
\* in order.
TextOf(fs, s) ==
    IF fs = <<>> THEN <<>>
    ELSE IF Head(fs).stream = s
         THEN Utf8ToString(Head(fs).payload) \o TextOf(Tail(fs), s)
         ELSE TextOf(Tail(fs), s)

\* The channel of job j is followed byte by byte.
OnWire(j) == Active(j) /\ "cut" \in DOMAIN prog[j]

\* C12: of a channel carrying stdout and stderr frames in any order, the
\* output and error buffers hold the payloads of the stdout and of the
\* stderr frames in their order, nothing else; once the demultiplexer has
\* no whole frame left they hold the payloads of every frame that arrived
\* whole, and a channel that closes within a frame raises nothing.
C12_Demultiplexed ==
    \A j \in JobIds :
        OnWire(j) =>
            LET whole == FramesWithin(prog[j].frames, prog[j].cut)
                out   == TextOf(whole, "stdout")
                err   == TextOf(whole, "stderr")
            IN  /\ IsPrefix(output[j], out)
                /\ IsPrefix(error[j], err)
                /\ ~HasFrame(wire[j]) => (output[j] = out /\ error[j] = err)
                /\ thrown[j] = NoError
                /\ pc[j] = "wait"

\* A stderr frame and a stdout frame have been delivered and the channel
\* has closed within the third frame.
C12_Witness ==
    /\ OnWire(1)
    /\ Len(prog[1].frames) = 3
    /\ prog[1].frames[1].stream = "stderr"
    /\ output[1] = <<98, 233>>
    /\ error[1] = <<97>>
    /\ wire[1] # <<>>
    /\ ~HasFrame(wire[1])


\* The number of entries e in the log of job j.
Count(j, e) == Cardinality({ i \in DOMAIN log[j] : log[j][i] = e })

\* C13: a job whose workspace directory was created has, when it ends,
\* invoked the recursive delete of the directory exactly once.
C13_OneDeletePerWorkspace ==
    \A j \in JobIds :
        (Connected /\ Ended(j) /\ Has(j, Returned("mkdir"))) => Count(j, Call("rm")) = 1


\* The phases of a job, by the calls that belong to them.
PhaseOf ==
    [op \in {"mkdir", "writeFile", "createContainer", "start", "attach",
             "demuxStream", "write", "wait", "remove"} |->
        CASE op \in {"mkdir", "writeFile"}   -> 1
          [] op = "createContainer"          -> 2
          [] op = "start"                    -> 3
          [] op = "attach"                   -> 4
          [] op \in {"demuxStream", "write"} -> 5
          [] op = "wait"                     -> 6
          [] op = "remove"                   -> 7]

\* The number of entries e among the first n entries of the log of job j.
CountBefore(j, e, n) ==
    Cardinality({ i \in 1..(n - 1) : log[j][i] = e })

\* Every call of phase q has returned before entry n of the log of job j.
CompletedBefore(j, q, n) ==
    CASE q = 1 -> /\ CountBefore(j, Returned("mkdir"), n) = 1
                  /\ CountBefore(j, Returned("writeFile"), n) =
                         IF Truthy(req[j].input) THEN 2 ELSE 1
      [] q = 2 -> CountBefore(j, Returned("createContainer"), n) = 1
      [] q = 3 -> CountBefore(j, Returned("start"), n) = 1
      [] q = 4 -> CountBefore(j, Returned("attach"), n) = 1
      [] q = 5 -> /\ CountBefore(j, Returned("demuxStream"), n) = 1
                  /\ Truthy(req[j].input) => CountBefore(j, Returned("write"), n) = 1
      [] q = 6 -> CountBefore(j, Returned("wait"), n) = 1

\* A call of one of the phases has raised before entry n of the log of job j.
FailedBefore(j, n) ==
    \E i \in 1..(n - 1) : log[j][i][2] = "err" /\ log[j][i][1] \in PhaseOps

\* C14: the calls of a job follow the order of the phases: a call of a phase
\* is issued only when every call of every earlier phase has returned and
\* none has raised; container.remove alone is also issued after a call of a
\* phase has raised.  (The fetches of logs and the inspect after a failed
\* wait belong to no phase.)
C14_PhasesInOrder ==
    \A j \in JobIds :
        \A n \in DOMAIN log[j] :
            LET op == log[j][n][1] IN
            (log[j][n] = Call(op) /\ op \in DOMAIN PhaseOf /\ PhaseOf[op] > 1) =>
                \/ /\ \A q \in 1..(PhaseOf[op] - 1) : CompletedBefore(j, q, n)
                   /\ ~FailedBefore(j, n)
                \/ /\ op = "remove"
                   /\ FailedBefore(j, n)
                   /\ CompletedBefore(j, 2, n)

\* A job with input has gone through every phase.
C14_Witness ==
    /\ Has(1, Returned("write"))
    /\ Has(1, Returned("wait"))
    /\ Has(1, Returned("remove"))


\* The phases that are not entered once a call of op has raised.
SkippedAfter(op) ==
    CASE op \in {"mkdir", "writeFile"} -> {"createContainer", "start", "attach", "wait"}
      [] op = "createContainer"        -> {"start", "attach", "wait"}
      [] op = "start"                  -> {"attach", "wait"}
      [] op \in {"attach", "write"}    -> {"wait"}

FatalOps == {"mkdir", "writeFile", "createContainer", "start", "attach", "write"}

\* No call of a phase that follows the failed one has been issued.
ShortCircuited(j) ==
    \A op \in FatalOps :
        Has(j, Raised(op)) => \A later \in SkippedAfter(op) : ~Issued(j, later)

\* C15: with the engine connected, a job one of whose setup calls raised
\* never issues a call of a later phase, and ends with a 500 response.
C15_FatalFailureShortCircuits ==
    \A j \in JobIds :
        (Connected /\ \E op \in FatalOps : Has(j, Raised(op))) =>
            /\ ShortCircuited(j)
            /\ Ended(j) => resp[j].status = 500


\* C16: a job whose attached stream has emitted an error while draining was
\* set up has issued the call of container.wait all the same, and its
\* response is the one the
\* calls of its handler, the exit code and the buffers make: the error first
\* thrown in the try block or, when none was thrown, the result of the exit
\* code and of the buffers as they are.
C16_StreamErrorDoesNotAbort ==
    \A j \in JobIds :
        (streamErr[j] /\ Has(j, Returned("demuxStream")) /\ ~Has(j, Raised("write"))) =>
            /\ Issued(j, "wait")
            /\ thrown[j] \in {NoError} \cup {ErrMsg(op) : op \in PhaseOps \cup {"rm"}}
            /\ HasResponse(j) =>
                   IF OriginalErrors(j) # {}
                   THEN resp[j] \in {ErrorResponse(500, m) : m \in OriginalErrors(j)}
                   ELSE resp[j] = ExitResponse(statusCode[j], output[j], error[j])

\* The stream failed after the first of two stdout frames, the program
\* exited with 0 and the response carries the one frame captured.
C16_Witness ==
    \E j \in JobIds :
        /\ streamErr[j]
        /\ Has(j, Returned("wait"))
        /\ PayloadsOf(prog[j].frames, "stdout") = <<"a", "a">>
        /\ resp[j] = OkResponse(<<"a">>, <<>>)


ProbeEnded == initPc \in {"done", "crashed"}

\* C17: every ping of initializeDocker is that of an attempt numbered 1 to
\* MAX_RETRIES, each attempt numbered one more than the last; the first ping
\* to succeed ends the probe; the timer of RETRY_DELAY is armed only while a
\* further attempt is to come; the probe ends; and once it has ended,
\* connected or not, it takes no further step.
C17_ProbeBoundedAndEnds ==
    /\ [](initPc \in {"ping", "delay"} => attempt \in 1..MAX_RETRIES)
    /\ [][(initPc' = "ping" /\ initPc # "ping") =>
              attempt' = IF initPc = "start" THEN 1 ELSE attempt + 1]_vars
    /\ [][(connected' /\ ~connected) => initPc' = "done"]_vars
    /\ [](timer = IF initPc = "delay" THEN RETRY_DELAY ELSE 0)
    /\ [](initPc = "delay" => attempt < MAX_RETRIES)
    /\ [][ProbeEnded => UNCHANGED connVars]_vars
    /\ <>ProbeEnded

\* The probe has given up after the ping of attempt MAX_RETRIES.
C17_Witness ==
    /\ PermanentlyFailed
    /\ attempt = MAX_RETRIES
    /\ timer = 0


\* The diagnostic capture of job j is over: inspect raised, or the fetch of
\* the logs that follows it returned or raised.
DiagnosticsOver(j) ==
    \/ Has(j, Raised("inspect"))
    \/ Has(j, Returned("logs"))
    \/ Has(j, Raised("logs"))

\* C18: however the diagnostic capture after a failed wait went, the error
\* thrown on is that of wait, the response when sent is the 500 carrying
\* it, and the job ends with the removal of the container and the delete of
\* the working directory issued.
C18_DiagnosticsOnlyLogged ==
    \A j \in JobIds :
        DiagnosticsOver(j) =>
            /\ Has(j, Raised("wait"))
            /\ thrown[j] = ErrMsg("wait")
            /\ Before(j, Raised("wait"), Call("remove"))
            /\ HasResponse(j) =>
                   /\ resp[j] = ErrorResponse(500, ErrMsg("wait"))
                   /\ Before(j, Call("rm"), Responded)

\* The inspect of the diagnostic capture raised and the response carries
\* the error of wait.
C18_Witness ==
    \E j \in JobIds :
        /\ Has(j, Raised("inspect"))
        /\ resp[j] = ErrorResponse(500, ErrMsg("wait"))


\* The deadline of the wait for each language of the registry, in seconds.
DeadlineSeconds ==
    [l \in SupportedLanguages |->
        CASE l = "csharp"     -> 60
          [] l = "javascript" -> 60
          [] OTHER            -> 15]

\* C19: the timeout given to container.wait, in milliseconds, is that of 60
\* seconds for a csharp or a javascript job and that of 15 seconds for a job
\* in any other language of the registry.
C19_WaitDeadline ==
    \A j \in JobIds :
        (Issued(j, "wait") /\ req[j].language \in SupportedLanguages) =>
            callArgs[j].timeout = 1000 * DeadlineSeconds[req[j].language]

\* A javascript job waits with a timeout of 60000 ms.
C19_Witness ==
    \E j \in JobIds :
        /\ req[j].language = "javascript"
        /\ pc[j] = "wait"
        /\ callArgs[j].timeout = 60000


\* C20: with the engine connected, a request whose handler has ended has
\* been sent one response, no more and no fewer.
C20_ExactlyOneResponse ==
    \A j \in JobIds :
        (Connected /\ Ended(j)) => Count(j, Responded) = 1

====
